---- MODULE Spec2Model ----
(***************************************************************************)
(* A model of pytest_inmanta/plugin.py: the Project facade (blob store,    *)
(* fact store, plugin registry, compile, deploy / dryrun and the resource  *)
(* lookup), with the external collaborators (compiler, exporter, handler)  *)
(* as nondeterministic inputs of the actions.                              *)
(*                                                                         *)
(* Python's None is the empty tuple and a present value x is <<x>>; a dict *)
(* is a function over the set of its keys, except `resources`, whose       *)
(* iteration order matters and which is the sequence of its values.        *)
(***************************************************************************)
EXTENDS Integers, Sequences, FiniteSets, TLC

VARIABLES
    types,        \* Project.types
    version,      \* Project.version
    resources,    \* Project.resources, in iteration order
    _blobs,       \* Project._blobs
    _facts,       \* Project._facts
    _plugins,     \* Project._plugins
    _capsys,      \* Project._capsys
    _stdout,      \* Project._stdout
    _stderr,      \* Project._stderr
    main_cf,      \* the content of <project dir>/main.cf
    plugin_dir,   \* the plugins directory of the module under test
    call,         \* the most recent call on the Project: operation, arguments, outcome
    events        \* what the most recent call did to its collaborators, in order

vars == <<types, version, resources, _blobs, _facts, _plugins, _capsys,
          _stdout, _stderr, main_cf, plugin_dir, call, events>>

----------------------------------------------------------------------------
(* Bounds of the model *)

MaxVersion == 2
MaxLogs == 1
MaxUploads == 1
MaxFiles == 2
MaxResources == 2

----------------------------------------------------------------------------
(* Values *)

None == <<>>
Some(x) == <<x>>

EmptyMap == [x \in {} |-> x]

MapSet(m, k, v) == [x \in (DOMAIN m) \cup {k} |-> IF x = k THEN v ELSE m[x]]

Maps(K, V) == UNION {[D -> V] : D \in SUBSET K}

SeqsUpTo(S, n) == UNION {[1..k -> S] : k \in 0..n}

BlobKeys == {"k1", "k2"}
BlobContents == {"c1", "c2"}
FactResourceIds == {"r1", "r2"}
FactNames == {"n1", "n2"}
FactValues == {"v1", "v2"}
Mains == {"m1"}
Captured == {"out1"}
TypeMappings == {"typesA", "typesB"}

----------------------------------------------------------------------------
(* Blob store and fact store *)

defaultAllowOverwrite == TRUE

\* The value of add_blob's allow_overwrite parameter: the argument when the
\* caller passes one, the default otherwise.
allow_overwrite(arg) == IF arg = None THEN defaultAllowOverwrite ELSE arg[1]

add_blob_raises_never(blobs, key, arg) == FALSE

add_blob_raises(blobs, key, arg) == key \in DOMAIN blobs /\ ~allow_overwrite(arg)

\* The blob store after add_blob(key, content, allow_overwrite).
add_blob_store(blobs, key, content, arg) ==
    IF add_blob_raises(blobs, key, arg) THEN blobs ELSE MapSet(blobs, key, content)

stat_blob(blobs, key) == key \in DOMAIN blobs

add_fact_store_reset(facts, resource_id, name, value) ==
    MapSet(facts, resource_id, MapSet(EmptyMap, name, value))

\* The fact store after add_fact: a defaultdict(dict), so that the resource's
\* inner dict is created on first use.
add_fact_store(facts, resource_id, name, value) ==
    LET inner == IF resource_id \in DOMAIN facts THEN facts[resource_id] ELSE EmptyMap
    IN  MapSet(facts, resource_id, MapSet(inner, name, value))

----------------------------------------------------------------------------
(* Resources and the lookup *)

ResourceTypes == {"testmodule::Resource", "testmodule::Other"}
AttrNames == {"name", "key"}
AttrValues == {"a", "b"}

\* A resource as the exporter yields it: its id carries the version of the
\* export, and its attributes are the fields hasattr / getattr can see.
Resource(i, rtype, attrs, v) ==
    [id |-> [name |-> i, version |-> v], rtype |-> rtype, attrs |-> attrs]

is_type_any(resource, resource_type) == TRUE

is_type(resource, resource_type) == resource.rtype = resource_type

apply_filter_lenient(resource, filter_args) ==
    \A arg \in DOMAIN filter_args :
        arg \in DOMAIN resource.attrs => resource.attrs[arg] = filter_args[arg]

apply_filter(resource, filter_args) ==
    \A arg \in DOMAIN filter_args :
        /\ arg \in DOMAIN resource.attrs
        /\ resource.attrs[arg] = filter_args[arg]

\* The loop of get_resource over resources.values(), from position i on.
RECURSIVE get_resource_from(_, _, _, _)
get_resource_from(rs, i, resource_type, filter_args) ==
    IF i > Len(rs) THEN None
    ELSE IF ~is_type(rs[i], resource_type)
         THEN get_resource_from(rs, i + 1, resource_type, filter_args)
    ELSE IF ~apply_filter(rs[i], filter_args)
         THEN get_resource_from(rs, i + 1, resource_type, filter_args)
    ELSE Some(rs[i])

get_resource_value(rs, resource_type, filter_args) ==
    get_resource_from(rs, 1, resource_type, filter_args)

----------------------------------------------------------------------------
(* Handlers: get_handler, deploy, dryrun *)

ResourceStates == {"deployed", "failed", "dry"}
deployed == "deployed"
dry == "dry"

agent_uri(run_as_root) == IF run_as_root THEN "ssh://root@localhost" ELSE "local:"

\* get_handler: the cache version is opened, the provider is looked up and
\* returned (or the lookup's exception is re-raised); the close_version call
\* after the try statement is never reached.
get_handler_events(resource, run_as_root, hb) ==
    << [e |-> "MockAgent", uri |-> agent_uri(run_as_root)],
       [e |-> "open_version", version |-> resource.id.version],
       [e |-> "get_provider"] >>

get_handler_raises(hb) == hb.provider = "raise"

\* What the handler's upload_file callback does to the blob store: add_blob
\* with two arguments.
RECURSIVE upload_files(_, _)
upload_files(blobs, uploads) ==
    IF uploads = <<>> THEN blobs
    ELSE upload_files(add_blob_store(blobs, uploads[1][1], uploads[1][2], None),
                      Tail(uploads))

\* deploy(resource, dry_run, run_as_root) with a handler that behaves as hb:
\* the outcome, the context, the blob store afterwards and the events.
deploy_value(blobs, resource, dry_run, run_as_root, hb) ==
    LET h == get_handler_events(resource, run_as_root, hb) IN
    IF get_handler_raises(hb)
    THEN [outcome |-> "HandlerError", ctx |-> None, blobs |-> blobs, events |-> h]
    ELSE LET ctx == [status |-> hb.status, logs |-> hb.logs, changes |-> hb.changes]
             ex == h \o << [e |-> "execute", dry_run |-> dry_run] >>
             bl == upload_files(blobs, hb.uploads)
         IN  IF hb.finalize = "raise"
             THEN [outcome |-> "EncodeError", ctx |-> None, blobs |-> bl,
                   events |-> ex \o << [e |-> "finalize_context"] >>]
             ELSE [outcome |-> "returned", ctx |-> Some(ctx), blobs |-> bl,
                   events |-> ex \o << [e |-> "finalize_context"] >>]

dryrun_value(blobs, resource, run_as_root, hb) ==
    deploy_value(blobs, resource, TRUE, run_as_root, hb)

RECURSIVE print_logs_traceback_only(_)
print_logs_traceback_only(logs) ==
    IF logs = <<>> THEN <<>>
    ELSE (IF logs[1].traceback
          THEN << [e |-> "print", what |-> "Log", log |-> logs[1]],
                  [e |-> "print", what |-> "Kwargs", log |-> logs[1]],
                  [e |-> "print", what |-> "Traceback", log |-> logs[1]] >>
          ELSE <<>>)
         \o print_logs_traceback_only(Tail(logs))

\* The diagnostic output of deploy_resource on a status mismatch.
RECURSIVE print_logs(_)
print_logs(logs) ==
    IF logs = <<>> THEN <<>>
    ELSE << [e |-> "print", what |-> "Log", log |-> logs[1]],
            [e |-> "print", what |-> "Kwargs", log |-> logs[1]] >>
         \o (IF logs[1].traceback
             THEN << [e |-> "print", what |-> "Traceback", log |-> logs[1]] >>
             ELSE <<>>)
         \o print_logs(Tail(logs))

print_diagnostics(ctx) ==
    << [e |-> "print", what |-> "Deploy did not result in correct status"],
       [e |-> "print", what |-> "Requested changes", changes |-> ctx.changes] >>
    \o print_logs(ctx.logs)

\* The arguments deploy_resource hands to deploy(resource, dry_run, run_as_root):
\* deploy(res, run_as_root) passes run_as_root in the place of dry_run.
deploy_resource_dry_run(run_as_root) == run_as_root
deploy_resource_run_as_root(run_as_root) == FALSE

----------------------------------------------------------------------------
(* Operations *)

init_keeps_blobs(capsys) ==
    /\ _capsys' = Some(capsys)
    /\ types' = None
    /\ version' = None
    /\ resources' = <<>>
    /\ _facts' = EmptyMap
    /\ call' = [op |-> "init", outcome |-> "returned"]
    /\ events' = <<>>
    /\ UNCHANGED <<_blobs, _plugins, _stdout, _stderr, main_cf, plugin_dir>>

init(capsys) ==
    /\ _capsys' = Some(capsys)
    /\ types' = None
    /\ version' = None
    /\ resources' = <<>>
    /\ _blobs' = EmptyMap
    /\ _facts' = EmptyMap
    /\ call' = [op |-> "init", outcome |-> "returned"]
    /\ events' = <<>>
    /\ UNCHANGED <<_plugins, _stdout, _stderr, main_cf, plugin_dir>>

add_blob(key, content, arg) ==
    /\ _blobs' = add_blob_store(_blobs, key, content, arg)
    /\ call' = [op |-> "add_blob", key |-> key, content |-> content, allow |-> arg,
                outcome |-> IF add_blob_raises(_blobs, key, arg)
                            THEN "Exception: already stored" ELSE "returned"]
    /\ events' = <<>>
    /\ UNCHANGED <<types, version, resources, _facts, _plugins, _capsys,
                   _stdout, _stderr, main_cf, plugin_dir>>

add_fact(resource_id, name, value) ==
    /\ _facts' = add_fact_store(_facts, resource_id, name, value)
    /\ call' = [op |-> "add_fact", resource_id |-> resource_id, name |-> name,
                value |-> value, outcome |-> "returned"]
    /\ events' = <<>>
    /\ UNCHANGED <<types, version, resources, _blobs, _plugins, _capsys,
                   _stdout, _stderr, main_cf, plugin_dir>>

persist_file_store_skip(blobs, file_store) == blobs

\* Persisting the exporter's file store: add_blob(key, blob) for every item.
RECURSIVE persist_file_store(_, _)
persist_file_store(blobs, file_store) ==
    IF DOMAIN file_store = {} THEN blobs
    ELSE LET k == CHOOSE x \in DOMAIN file_store : TRUE
         IN  persist_file_store(add_blob_store(blobs, k, file_store[k], None),
                                [x \in (DOMAIN file_store) \ {k} |-> file_store[x]])

\* compile(main), with a compiler and an exporter that behave as cr.
compile(main, cr) ==
    /\ main_cf' = Some(main)
    /\ UNCHANGED <<_facts, _plugins, _capsys, plugin_dir>>
    /\ IF _capsys = None
       THEN /\ call' = [op |-> "compile", outcome |-> "AttributeError"]
            /\ events' = <<>>
            /\ UNCHANGED <<types, version, resources, _blobs, _stdout, _stderr>>
       ELSE IF cr.do_compile = "raise"
       THEN /\ call' = [op |-> "compile", outcome |-> "CompileError"]
            /\ events' = << [e |-> "do_compile", facts |-> _facts] >>
            /\ UNCHANGED <<types, version, resources, _blobs, _stdout, _stderr>>
       ELSE IF cr.run = "raise"
       THEN /\ call' = [op |-> "compile", outcome |-> "ExportError"]
            /\ events' = << [e |-> "do_compile", facts |-> _facts],
                            [e |-> "Exporter.run"] >>
            /\ UNCHANGED <<types, version, resources, _blobs, _stdout, _stderr>>
       ELSE /\ _blobs' = persist_file_store(_blobs, cr.file_store)
            /\ version' = Some(cr.version)
            /\ resources' = cr.resources
            /\ types' = Some(cr.types)
            /\ _stdout' = Some(cr.out)
            /\ _stderr' = Some(cr.err)
            /\ call' = [op |-> "compile", outcome |-> "returned"]
            /\ events' = << [e |-> "do_compile", facts |-> _facts],
                            [e |-> "Exporter.run", file_store |-> cr.file_store] >>

get_resource(resource_type, filter_args) ==
    /\ call' = [op |-> "get_resource", rtype |-> resource_type, filter |-> filter_args,
                outcome |-> "returned",
                ret |-> get_resource_value(resources, resource_type, filter_args)]
    /\ events' = <<>>
    /\ UNCHANGED <<types, version, resources, _blobs, _facts, _plugins, _capsys,
                   _stdout, _stderr, main_cf, plugin_dir>>

deploy(resource, dry_run, run_as_root, hb) ==
    LET d == deploy_value(_blobs, resource, dry_run, run_as_root, hb) IN
    /\ _blobs' = d.blobs
    /\ call' = [op |-> "deploy", run_as_root |-> run_as_root, dry_run |-> dry_run,
                outcome |-> d.outcome, ret |-> d.ctx]
    /\ events' = d.events
    /\ UNCHANGED <<types, version, resources, _facts, _plugins, _capsys,
                   _stdout, _stderr, main_cf, plugin_dir>>

dryrun(resource, run_as_root, hb) ==
    LET d == dryrun_value(_blobs, resource, run_as_root, hb) IN
    /\ _blobs' = d.blobs
    /\ call' = [op |-> "dryrun", run_as_root |-> run_as_root,
                outcome |-> d.outcome, ret |-> d.ctx]
    /\ events' = d.events
    /\ UNCHANGED <<types, version, resources, _facts, _plugins, _capsys,
                   _stdout, _stderr, main_cf, plugin_dir>>

deploy_resource(resource_type, status, run_as_root, filter_args, hb) ==
    LET res == get_resource_value(resources, resource_type, filter_args)
        args == [op |-> "deploy_resource", rtype |-> resource_type,
                 filter |-> filter_args, status |-> status,
                 run_as_root |-> run_as_root]
    IN
    /\ UNCHANGED <<types, version, resources, _facts, _plugins, _capsys,
                   _stdout, _stderr, main_cf, plugin_dir>>
    /\ IF res = None
       THEN /\ call' = args @@ [outcome |-> "AssertionError: No resource found",
                                ctx |-> None, ret |-> None]
            /\ events' = <<>>
            /\ UNCHANGED _blobs
       ELSE LET d == deploy_value(_blobs, res[1], deploy_resource_dry_run(run_as_root),
                                  deploy_resource_run_as_root(run_as_root), hb)
            IN  /\ _blobs' = d.blobs
                /\ IF d.outcome # "returned"
                   THEN /\ call' = args @@ [outcome |-> d.outcome, ctx |-> None,
                                            ret |-> None]
                        /\ events' = d.events
                   ELSE IF d.ctx[1].status # status
                   THEN /\ call' = args @@ [outcome |-> "AssertionError", ctx |-> d.ctx,
                                            ret |-> None]
                        /\ events' = d.events \o print_diagnostics(d.ctx[1])
                                     \o << [e |-> "raise"] >>
                   ELSE /\ call' = args @@ [outcome |-> "returned", ctx |-> d.ctx,
                                            ret |-> res]
                        /\ events' = d.events \o << [e |-> "finalize_context"] >>

dryrun_resource(resource_type, status, run_as_root, filter_args, hb) ==
    LET res == get_resource_value(resources, resource_type, filter_args)
        args == [op |-> "dryrun_resource", rtype |-> resource_type,
                 filter |-> filter_args, run_as_root |-> run_as_root]
    IN
    /\ UNCHANGED <<types, version, resources, _facts, _plugins, _capsys,
                   _stdout, _stderr, main_cf, plugin_dir>>
    /\ IF res = None
       THEN /\ call' = args @@ [outcome |-> "AssertionError: No resource found",
                                ctx |-> None, ret |-> None]
            /\ events' = <<>>
            /\ UNCHANGED _blobs
       ELSE LET d == dryrun_value(_blobs, res[1], run_as_root, hb)
            IN  /\ _blobs' = d.blobs
                /\ events' = d.events
                /\ IF d.outcome # "returned"
                   THEN call' = args @@ [outcome |-> d.outcome, ctx |-> None, ret |-> None]
                   ELSE IF d.ctx[1].status # dry
                   THEN call' = args @@ [outcome |-> "AssertionError", ctx |-> d.ctx,
                                         ret |-> None]
                   ELSE call' = args @@ [outcome |-> "returned", ctx |-> d.ctx,
                                         ret |-> Some(d.ctx[1].changes)]


----------------------------------------------------------------------------
(* Plugins *)

PluginNames == {"f", "g"}

\* The plugins directory: None when the module has none, else whether it holds
\* __init__.py and the *.py files in the order glob yields them, each file the
\* set of the names bound to functions in its namespace.
_load_plugins_raises(dir) == dir # None /\ ~dir[1].init_py

\* The loop over the files, from file i on: result[k] = v, file after file.
RECURSIVE load_files(_, _, _)
load_files(files, i, result) ==
    IF i > Len(files) THEN result
    ELSE load_files(files, i + 1,
                    [k \in (DOMAIN result) \cup files[i] |->
                        IF k \in files[i] THEN [file |-> i, name |-> k] ELSE result[k]])

\* The value _load_plugins returns: nothing (None) without a plugins
\* directory, the registry otherwise.
_load_plugins(dir) ==
    IF dir = None THEN None ELSE Some(load_files(dir[1].files, 1, EmptyMap))

get_plugin_function(function_name) ==
    /\ call' = [op |-> "get_plugin_function", name |-> function_name] @@
               (IF _plugins = None
                THEN [outcome |-> "TypeError", ret |-> None]
                ELSE IF function_name \notin DOMAIN _plugins[1]
                THEN [outcome |-> "Exception: Plugin function not found", ret |-> None]
                ELSE [outcome |-> "returned", ret |-> Some(_plugins[1][function_name])])
    /\ events' = <<>>
    /\ UNCHANGED <<types, version, resources, _blobs, _facts, _plugins, _capsys,
                   _stdout, _stderr, main_cf, plugin_dir>>

get_plugins ==
    /\ call' = [op |-> "get_plugins"] @@
               (IF _plugins = None
                THEN [outcome |-> "TypeError", ret |-> None]
                ELSE [outcome |-> "returned", ret |-> _plugins])
    /\ events' = <<>>
    /\ UNCHANGED <<types, version, resources, _blobs, _facts, _plugins, _capsys,
                   _stdout, _stderr, main_cf, plugin_dir>>

----------------------------------------------------------------------------
(* The inputs the specifications draw from *)

LogEntries == {[msg |-> "msg", traceback |-> FALSE], [msg |-> "msg", traceback |-> TRUE]}

\* What a handler can do in one deployment.
HandlerBehaviours(providers, statuses, logs, uploads, finalizes) ==
    [provider : providers, status : statuses, logs : logs, changes : {"changes"},
     uploads : uploads, finalize : finalizes]

\* Resources of distinct identity, in every order.
ResourceLists(shapes, n, v) ==
    {[i \in DOMAIN q |-> Resource(q[i].name, q[i].rtype, q[i].attrs, v)] :
        q \in {x \in SeqsUpTo(shapes, n) :
                  \A i, j \in DOMAIN x : i # j => x[i].name # x[j].name}}

\* What the compiler and the exporter can do in one compile.
CompileRaises ==
    {[do_compile |-> "raise", run |-> "ok"], [do_compile |-> "ok", run |-> "raise"]}

CompileResults(typeMappings, versions, shapes, fileStores) ==
    UNION {[do_compile : {"ok"}, run : {"ok"}, types : typeMappings, version : {v},
            resources : ResourceLists(shapes, MaxResources, v),
            file_store : fileStores, out : Captured, err : Captured] : v \in versions}

\* A project as the constructor leaves it, for a module whose plugins
\* directory is one of dirs.
ProjectInit(dirs) ==
    /\ types = None
    /\ version = None
    /\ resources = <<>>
    /\ _blobs = EmptyMap
    /\ _facts = EmptyMap
    /\ plugin_dir \in {d \in dirs : ~_load_plugins_raises(d)}
    /\ _plugins = _load_plugins(plugin_dir)
    /\ _capsys = None
    /\ _stdout = None
    /\ _stderr = None
    /\ main_cf = None
    /\ call = [op |-> "__init__", outcome |-> "returned"]
    /\ events = <<>>

\* The plugins directory of examples/testmodule.
TestModuleDir == Some([init_py |-> TRUE, files |-> << {"f"} >>])

----------------------------------------------------------------------------
(* Specifications *)

\* The life of a Project over a test session: the stores, compile and the
\* deployments that write to the blob store.
LifeShapes == {[name |-> "r1", rtype |-> "testmodule::Resource", attrs |-> [name |-> "a"]]}
LifeHandlers ==
    HandlerBehaviours({"ok"}, {deployed}, {<<>>},
                      SeqsUpTo({"k1"} \X BlobContents, MaxUploads), {"ok"})
LifeCompiles ==
    CompileRaises \cup
    CompileResults(TypeMappings, 1..MaxVersion, LifeShapes,
                   {EmptyMap, [k \in {"k1"} |-> "c1"]})

Init == ProjectInit({TestModuleDir})

Next ==
    \/ init("capsys")
    \/ \E k \in BlobKeys, c \in BlobContents, a \in {None, Some(TRUE), Some(FALSE)} :
          add_blob(k, c, a)
    \/ \E r \in {"r1"}, n \in {"n1"}, v \in FactValues : add_fact(r, n, v)
    \/ \E m \in Mains, cr \in LifeCompiles : compile(m, cr)
    \/ \E i \in DOMAIN resources, d \in BOOLEAN, root \in BOOLEAN, hb \in LifeHandlers :
          deploy(resources[i], d, root, hb)
    \/ \E i \in DOMAIN resources, root \in BOOLEAN, hb \in LifeHandlers :
          dryrun(resources[i], root, hb)
    \/ \E t \in {"testmodule::Resource"}, root \in BOOLEAN, hb \in LifeHandlers :
          deploy_resource(t, deployed, root, EmptyMap, hb)
    \/ \E t \in {"testmodule::Resource"}, root \in BOOLEAN, hb \in LifeHandlers :
          dryrun_resource(t, deployed, root, EmptyMap, hb)

Spec == Init /\ [][Next]_vars

\* The fact store and what compile hands to the compiler.
FactCompiles == CompileRaises \cup CompileResults({"typesA"}, {1}, {}, {EmptyMap})

NextFacts ==
    \/ init("capsys")
    \/ \E r \in FactResourceIds, n \in FactNames, v \in FactValues : add_fact(r, n, v)
    \/ \E m \in Mains, cr \in FactCompiles : compile(m, cr)

SpecFacts == Init /\ [][NextFacts]_vars

\* The deployment protocol: lookup, handler, status check, diagnostics.
DeployShapes ==
    {[name |-> "r1", rtype |-> "testmodule::Resource", attrs |-> [name |-> "a"]],
     [name |-> "r2", rtype |-> "testmodule::Resource", attrs |-> [name |-> "b"]]}
DeployFilters == {EmptyMap, [name |-> "b"]}
DeployHandlers ==
    HandlerBehaviours({"ok", "raise"}, ResourceStates, SeqsUpTo(LogEntries, MaxLogs),
                      {<<>>}, {"ok", "raise"})
DeployCompiles == CompileResults({"typesA"}, {1}, DeployShapes, {EmptyMap})

NextDeploy ==
    \/ init("capsys")
    \/ \E m \in Mains, cr \in DeployCompiles : compile(m, cr)
    \/ \E i \in DOMAIN resources, d \in BOOLEAN, root \in BOOLEAN, hb \in DeployHandlers :
          deploy(resources[i], d, root, hb)
    \/ \E i \in DOMAIN resources, root \in BOOLEAN, hb \in DeployHandlers :
          dryrun(resources[i], root, hb)
    \/ \E t \in ResourceTypes, st \in {deployed, "failed"}, root \in BOOLEAN,
          f \in DeployFilters, hb \in DeployHandlers :
          deploy_resource(t, st, root, f, hb)
    \/ \E t \in ResourceTypes, root \in BOOLEAN, f \in DeployFilters,
          hb \in DeployHandlers :
          dryrun_resource(t, deployed, root, f, hb)

SpecDeploy == Init /\ [][NextDeploy]_vars

\* The plugin registry, for every plugins directory of up to MaxFiles files.
PluginDirs ==
    {None} \cup
    {Some(d) : d \in [init_py : BOOLEAN,
                      files : SeqsUpTo(SUBSET PluginNames, MaxFiles) \ {<<>>}]}

InitPlugins == ProjectInit(PluginDirs)

NextPlugins ==
    \/ \E n \in PluginNames \cup {"h"} : get_plugin_function(n)
    \/ get_plugins

SpecPlugins == InitPlugins /\ [][NextPlugins]_vars

\* The lookup, over every resources mapping of up to MaxResources resources
\* that a compile left behind.
LookupResources ==
    {[i \in DOMAIN q |-> Resource(i, q[i].rtype, q[i].attrs, 1)] :
        q \in SeqsUpTo([rtype : ResourceTypes, attrs : Maps(AttrNames, AttrValues)],
                       MaxResources)}

InitGetResource ==
    /\ types = Some("typesA")
    /\ version = Some(1)
    /\ resources \in LookupResources
    /\ _blobs = EmptyMap
    /\ _facts = EmptyMap
    /\ plugin_dir = TestModuleDir
    /\ _plugins = _load_plugins(plugin_dir)
    /\ _capsys = Some("capsys")
    /\ _stdout = Some("out1")
    /\ _stderr = Some("out1")
    /\ main_cf = Some("m1")
    /\ call = [op |-> "compile", outcome |-> "returned"]
    /\ events = <<>>

NextGetResource ==
    \E t \in ResourceTypes, f \in Maps(AttrNames, AttrValues) : get_resource(t, f)

SpecGetResource == InitGetResource /\ [][NextGetResource]_vars

----------------------------------------------------------------------------
(* Properties *)

IsOp(op) == call.op = op

\* What it is for a resource to be of a type and to carry every filter value.
Matches(r, rtype, filter) ==
    /\ r.rtype = rtype
    /\ DOMAIN filter \subseteq DOMAIN r.attrs
    /\ \A a \in DOMAIN filter : r.attrs[a] = filter[a]

Matching(rtype, filter) == {i \in DOMAIN resources : Matches(resources[i], rtype, filter)}

EventsOf(kind) == {i \in DOMAIN events : events[i].e = kind}

\* C1: after init() the five fields of the compile / deploy state hold their
\* reset values (types and version None, resources, facts and blobs empty),
\* whatever the calls before it wrote to them.
C1_InitResets ==
    IsOp("init") =>
        /\ types = None
        /\ version = None
        /\ resources = <<>>
        /\ _facts = EmptyMap
        /\ _blobs = EmptyMap

\* An init() that follows a successful compile of an earlier test.
C1_Witness == IsOp("init") /\ _stdout # None /\ main_cf # None

\* C2: when no resource of the mapping matches the type and the filters,
\* deploy_resource and dryrun_resource fail with the "No resource found"
\* assertion, and no agent was made, no cache version opened, no provider
\* looked up and no handler executed.
C2_NoResourceFound ==
    (IsOp("deploy_resource") \/ IsOp("dryrun_resource")) =>
        (Matching(call.rtype, call.filter) = {} =>
            /\ call.outcome = "AssertionError: No resource found"
            /\ events = <<>>)

\* A lookup that fails although the mapping holds resources.
C2_Witness ==
    /\ IsOp("deploy_resource")
    /\ resources # <<>>
    /\ Matching(call.rtype, call.filter) = {}
    /\ call.outcome = "AssertionError: No resource found"

PrintedLogs ==
    LET IsLog(ev) == ev.e = "print" /\ ev.what = "Log"
        logs == SelectSeq(events, IsLog)
    IN  [i \in DOMAIN logs |-> logs[i].log]

\* C3: deploy_resource returns (the matched resource) only if the status of
\* the context that deploy returned is the expected one; when it differs the
\* call ends in an assertion error, and the requested changes and every log
\* entry of the context were printed before it was raised.
C3_StatusChecked ==
    IsOp("deploy_resource") =>
        /\ call.outcome = "returned" =>
              /\ call.ctx # None
              /\ call.ctx[1].status = call.status
              /\ Matching(call.rtype, call.filter) # {}
              /\ call.ret = Some(resources[CHOOSE i \in Matching(call.rtype, call.filter) :
                                    \A j \in Matching(call.rtype, call.filter) : i <= j])
        /\ (call.ctx # None /\ call.ctx[1].status # call.status) =>
              /\ call.outcome = "AssertionError"
              /\ events[Len(events)].e = "raise"
              /\ \E i \in EventsOf("print") : events[i].what = "Requested changes"
              /\ PrintedLogs = call.ctx[1].logs
              /\ \A i \in EventsOf("print") : \A j \in EventsOf("raise") : i < j

\* A status mismatch on a context with a log entry that has no traceback.
C3_Witness ==
    /\ IsOp("deploy_resource")
    /\ call.outcome = "AssertionError"
    /\ call.ctx # None
    /\ \E i \in DOMAIN call.ctx[1].logs : ~call.ctx[1].logs[i].traceback

\* C4: deploy_resource executes the handler with dry_run false and
\* dryrun_resource with dry_run true, whatever run_as_root is, and run_as_root
\* selects the agent URI.
C4_DryRunByFlavor ==
    (IsOp("deploy_resource") \/ IsOp("dryrun_resource")) =>
        /\ \A i \in EventsOf("execute") : events[i].dry_run = IsOp("dryrun_resource")
        /\ \A i \in EventsOf("MockAgent") : events[i].uri = agent_uri(call.run_as_root)

\* C5: get_plugin_function raises the "not found" error for every name that
\* no plugin file defines, and get_plugins returns an empty mapping when the
\* module has no plugins directory.
DefinedNames ==
    IF plugin_dir = None THEN {}
    ELSE UNION {plugin_dir[1].files[i] : i \in DOMAIN plugin_dir[1].files}

C5_UnknownPluginRaises ==
    /\ (IsOp("get_plugin_function") /\ call.name \notin DefinedNames) =>
          call.outcome = "Exception: Plugin function not found"
    /\ (IsOp("get_plugins") /\ plugin_dir = None) =>
          (call.outcome = "returned" /\ call.ret = Some(EmptyMap))

ContentReplaced(k) == k \in DOMAIN _blobs /\ k \in DOMAIN _blobs' /\ _blobs'[k] # _blobs[k]

\* C6 as claimed: the content of a key that is in the blob store is replaced
\* only by a call whose caller passes allow_overwrite as true.
C6_OnlyExplicitOverwrite ==
    [][(\E k \in BlobKeys : ContentReplaced(k)) =>
           (call'.op = "add_blob" /\ call'.allow = Some(TRUE))]_vars

\* C6 as amended: an add_blob call that passes allow_overwrite as false raises
\* on a key that is in the store and replaces no content; every other add_blob
\* call (the argument left out, or true) returns and stores the content under
\* the key, replacing what was there.
C6_OverwriteUnlessForbidden ==
    [][call'.op = "add_blob" =>
          IF call'.allow = Some(FALSE)
          THEN /\ ~\E k \in BlobKeys : ContentReplaced(k)
               /\ (call'.key \in DOMAIN _blobs) =
                      (call'.outcome = "Exception: already stored")
               /\ call'.key \in DOMAIN _blobs => _blobs' = _blobs
          ELSE /\ call'.outcome = "returned"
               /\ call'.key \in DOMAIN _blobs'
               /\ _blobs'[call'.key] = call'.content
               /\ \A k \in DOMAIN _blobs \ {call'.key} :
                      k \in DOMAIN _blobs' /\ _blobs'[k] = _blobs[k]]_vars

\* A refused overwrite: the key keeps a content other than the one offered.
C6_Witness ==
    /\ IsOp("add_blob")
    /\ call.allow = Some(FALSE)
    /\ call.outcome = "Exception: already stored"
    /\ _blobs[call.key] # call.content

\* C7: every cache version a deploy or dryrun opened is closed by the time
\* the call returns or raises.
C7_VersionsClosed ==
    \A i \in EventsOf("open_version") :
        \E j \in EventsOf("close_version") :
            j > i /\ events[j].version = events[i].version

FactPairs(f) ==
    {p \in FactResourceIds \X FactNames : p[1] \in DOMAIN f /\ p[2] \in DOMAIN f[p[1]]}

\* C8: add_fact sets the value of its (resource_id, name) pair and keeps every
\* other pair, only init() empties the fact store, and a compile hands the
\* compiler the fact store as it is and leaves it as it is.
C8_FactsAccumulate ==
    [][/\ call'.op = "add_fact" =>
             /\ FactPairs(_facts') = FactPairs(_facts) \cup {<<call'.resource_id, call'.name>>}
             /\ _facts'[call'.resource_id][call'.name] = call'.value
             /\ \A p \in FactPairs(_facts) \ {<<call'.resource_id, call'.name>>} :
                    _facts'[p[1]][p[2]] = _facts[p[1]][p[2]]
       /\ call'.op = "init" => _facts' = EmptyMap
       /\ call'.op \notin {"add_fact", "init"} => _facts' = _facts
       /\ (call'.op = "compile" /\ call'.outcome # "AttributeError") =>
             /\ events'[1].e = "do_compile"
             /\ events'[1].facts = _facts]_vars

\* A compile that is handed two facts of one resource and one of another.
C8_Witness ==
    /\ IsOp("compile")
    /\ call.outcome = "returned"
    /\ events[1].facts = _facts
    /\ FactPairs(_facts) = {<<"r1", "n1">>, <<"r1", "n2">>, <<"r2", "n1">>}
    /\ _facts["r1"]["n1"] # _facts["r1"]["n2"]

\* C9: get_resource returns the first resource, in the order of the mapping,
\* that is of the type and carries every filter value, None exactly when
\* there is none, and leaves the mapping as it is.
C9_FirstMatch ==
    /\ [](IsOp("get_resource") =>
            LET M == Matching(call.rtype, call.filter) IN
            /\ (M = {}) = (call.ret = None)
            /\ M # {} => call.ret = Some(resources[CHOOSE i \in M : \A j \in M : i <= j])
            /\ call.ret # None => DOMAIN call.filter \subseteq DOMAIN call.ret[1].attrs)
    /\ [][call'.op = "get_resource" => resources' = resources]_vars

\* A lookup with a filter that skips a resource lacking the attribute and
\* returns the first of the matching ones after it.
C9_Witness ==
    /\ IsOp("get_resource")
    /\ Len(resources) >= 2
    /\ call.filter # EmptyMap
    /\ ~(DOMAIN call.filter \subseteq DOMAIN resources[1].attrs)
    /\ resources[1].rtype = call.rtype
    /\ call.ret = Some(resources[2])

CompileState == <<types, resources, version, _blobs, _stdout, _stderr>>

\* C10: a compile that raises leaves types, resources, version, the blob
\* store and the recorded output as they were; one that returns has set types,
\* resources and version, added the exporter's blobs to the blob store and
\* recorded the output.
C10_CompileAllOrNothing ==
    [][call'.op = "compile" =>
          IF call'.outcome # "returned"
          THEN CompileState' = CompileState
          ELSE LET fs == events'[2].file_store IN
               /\ types' # None /\ version' # None
               /\ _stdout' # None /\ _stderr' # None
               /\ \A i \in DOMAIN resources' : resources'[i].id.version = version'[1]
               /\ DOMAIN _blobs' = DOMAIN _blobs \cup DOMAIN fs
               /\ \A k \in DOMAIN fs : _blobs'[k] = fs[k]
               /\ \A k \in DOMAIN _blobs \ DOMAIN fs : _blobs'[k] = _blobs[k]]_vars

\* An export that fails after an earlier compile and an add_blob: the earlier
\* results are still there.
C10_Witness ==
    /\ IsOp("compile")
    /\ call.outcome = "ExportError"
    /\ types # None
    /\ resources # <<>>
    /\ _blobs # EmptyMap

====
